---- MODULE Spec2Model ----
(***************************************************************************)
(* A state-machine model of the training driver src/train.py: set-up of    *)
(* the trainable (multi-slice spiking) network and of the reference        *)
(* network, the training loop with its learning-rate adjustment, batch     *)
(* fetch, training presentation, reference step and periodic evaluation    *)
(* round, and the closing of the logging sink.                             *)
(*                                                                         *)
(* The networks, the spike encoder and the data loaders are external to    *)
(* train.py.  They are represented by what the driver does to them: the    *)
(* calls it makes, in order, the learning rates it rescales, the arrays    *)
(* and files it writes.                                                    *)
(***************************************************************************)
EXTENDS Integers, Sequences, FiniteSets, TLC

(***************************************************************************)
(* Bounds of the model.                                                    *)
(***************************************************************************)
MaxSteps == 3
MaxInterval == 2
MaxIters == 2
MaxBatch == 3
MaxBatchTest == 2
MaxTestSamples == 3
TrainSetSize == 2
TestSetSize == 2
NumSlices == 2
MaxHalvings == 2

(***************************************************************************)
(* Program constants.                                                      *)
(***************************************************************************)
\* train.py:152  target_size = 24 (RadioML, the default dataset)
target_size == 24
\* train.py:302  if ((step + 1) % 1000) == 0
LrHalvingPeriod == 1000

VARIABLES
    args,               \* the parsed command line (never changed)
    pc,                 \* position of the driver in train.py
    error,              \* the exception that ended the run, and the line raising it
    printed,            \* the diagnostics printed so far
    writer,             \* the logging sink (SummaryWriter)
    net,                \* the trainable network, as seen by the driver
    ref_net,            \* the reference network, as seen by the driver
    acc_test,           \* accuracy array [round][batch] of the trainable net
    acc_test_ref,       \* accuracy array [round][batch] of the reference net
    gen_train,          \* batches consumed from the training iterator
    all_test_data,      \* the held-out evaluation pool
    label_train_counts, \* label frequency counter
    step,               \* loop variable of the training loop
    input,              \* samples of the current training batch
    labels,             \* labels of the current training batch (one-hot)
    sim_iteration,      \* loop variable of a presentation
    test_idx,           \* round index of the current evaluation round
    i,                  \* index of the current pool batch
    test_data,          \* the pool batch under evaluation
    files,              \* what the run has written under out_dir
    hist                \* observations of the run (not program state)

vars == <<args, pc, error, printed, writer, net, ref_net, acc_test,
          acc_test_ref, gen_train, all_test_data, label_train_counts, step,
          input, labels, sim_iteration, test_idx, i, test_data, files, hist>>

(***************************************************************************)
(* Pure helpers.                                                           *)
(***************************************************************************)
\* np.ceil(float(a) / b).astype(int), for a >= 0 and b >= 1
CeilDiv(a, b) == (a + b - 1) \div b

RECURSIVE Pow2(_)
Pow2(n) == IF n = 0 THEN 1 ELSE 2 * Pow2(n - 1)

\* A learning rate is kept as the exact fraction num / den.
HalveLr(lr) == [num |-> lr.num, den |-> lr.den * 2]

\* data.utils.to_one_hot for one label; a vector of length target_size is a
\* tuple, the entry of class c at position c + 1
OneHot(l) == [c \in 1 .. target_size |-> IF c = l + 1 THEN 1 ELSE 0]

Range(s) == {s[k] : k \in DOMAIN s}

RECURSIVE SumOver(_, _)
SumOver(f, S) ==
    IF S = {} THEN 0
    ELSE LET x == CHOOSE y \in S : TRUE IN f[x] + SumOver(f, S \ {x})

(***************************************************************************)
(* The data loaders (data/load_radio_ml.py, not part of train.py): a       *)
(* loader over a finite data set yields full batches of the requested      *)
(* size, in the same order at every iteration.                             *)
(***************************************************************************)
\* two consecutive examples of the data set share a class
ExampleLabel(e) == (e \div 2) % target_size

LoaderBatch(b, size) ==
    [samples |-> [k \in 1 .. size |-> b * size + (k - 1)],
     labels  |-> [k \in 1 .. size |-> ExampleLabel(b * size + (k - 1))]]

train_data == [b \in 1 .. (TrainSetSize \div args.batch_size) |->
                  LoaderBatch(b - 1, args.batch_size)]

test_loader == [b \in 1 .. (TestSetSize \div args.batch_size_test) |->
                  LoaderBatch(b - 1, args.batch_size_test)]

(***************************************************************************)
(* Values derived from the command line.                                   *)
(***************************************************************************)
n_test == CeilDiv(args.n_test_samples, args.batch_size_test)

\* Variant: the number of rounds is rounded down.
n_tests_total_Floor == args.n_steps \div args.n_test_interval

\* lines 190-191
n_tests_total == CeilDiv(args.n_steps, args.n_test_interval)

\* np.empty([n_tests_total, n_test, ...]): allocated, no entry written
Unwritten == [written |-> FALSE, value |-> <<>>]

Written(v) == [written |-> TRUE, value |-> v]

EmptyArray == [r \in 0 .. n_tests_total - 1 |-> [b \in 0 .. n_test - 1 |-> Unwritten]]

\* a file of out_dir that np.save has not written yet
NoFile == [written |-> FALSE, content |-> <<>>]

NoBatch == [samples |-> <<>>, labels |-> <<>>]


(***************************************************************************)
(* The command lines considered.                                           *)
(***************************************************************************)
RestorePaths == {"none", "missing", "file", "invalid"}

ArgsSmall ==
    [just_ref        : BOOLEAN,
     no_save         : BOOLEAN,
     restore_path    : RestorePaths,
     n_steps         : 1 .. MaxSteps,
     n_test_interval : 1 .. MaxInterval,
     n_iters         : {1, MaxIters},
     n_iters_test    : {1, MaxIters},
     batch_size      : 1 .. MaxBatch,
     batch_size_test : {1, MaxBatchTest},
     n_test_samples  : 0 .. MaxTestSamples]

\* Long runs, for the learning-rate schedule: everything that only
\* multiplies the work of one step is pinned to its smallest value.
ArgsLong ==
    [just_ref        : BOOLEAN,
     no_save         : BOOLEAN,
     restore_path    : RestorePaths,
     n_steps         : {LrHalvingPeriod * MaxHalvings + 1},
     n_test_interval : {LrHalvingPeriod},
     n_iters         : {1},
     n_iters_test    : {1},
     batch_size      : {1, MaxBatch},
     batch_size_test : {1},
     n_test_samples  : {1, MaxTestSamples}]

(***************************************************************************)
(* Initial values of the objects the driver builds.                        *)
(***************************************************************************)
\* learning rates handed to the optimizers at construction
SliceLr0(s) == [num |-> s, den |-> 1]
SecondLr0   == [num |-> NumSlices + 1, den |-> 1]
RefLr0      == [num |-> NumSlices + 2, den |-> 1]

NoNet ==
    [built   |-> FALSE,
     weights |-> [origin |-> "none", updates |-> 0],
     mode    |-> "none",
     lr      |-> <<>>,
     lr2     |-> [num |-> 0, den |-> 1],
     trace   |-> <<>>]

NoRefNet ==
    [built |-> FALSE, updates |-> 0, mode |-> "none",
     lr |-> [num |-> 0, den |-> 1]]

InitWith(Args) ==
    /\ args \in Args
    /\ pc = "build_net"
    /\ error = [type |-> "none", line |-> 0]
    /\ printed = {}
    /\ writer = [closes |-> 0, events |-> {}, late |-> FALSE]
    /\ net = NoNet
    /\ ref_net = NoRefNet
    /\ acc_test = "undefined"
    /\ acc_test_ref = "undefined"
    /\ gen_train = 0
    /\ all_test_data = <<>>
    /\ label_train_counts = [c \in 1 .. target_size |-> 0]
    /\ step = 0
    /\ input = <<>>
    /\ labels = <<>>
    /\ sim_iteration = 0
    /\ test_idx = 0
    /\ i = 0
    /\ test_data = NoBatch
    /\ files = [meta |-> FALSE, acc_test |-> NoFile, acc_test_ref |-> NoFile,
                params |-> <<>>]
    /\ hist = [rounds |-> {}, fed |-> {}, fetched |-> 0, restarts |-> 0,
               saved |-> {}, pool_builds |-> 0, learns |-> {}, tests |-> {}]

Init == InitWith(ArgsSmall)

InitLong == InitWith(ArgsLong)

\* An exception that nothing catches ends the run where it is raised.
Raise(e, line) == pc' = "error" /\ error' = [type |-> e, line |-> line]

(***************************************************************************)
(* Set-up, train.py lines 213-295.                                         *)
(***************************************************************************)
\* lines 213-222: the trainable network is constructed
BuildNet ==
    /\ pc = "build_net"
    /\ ~args.just_ref
    /\ net' = [built   |-> TRUE,
               weights |-> [origin |-> "fresh", updates |-> 0],
               mode    |-> "train",
               lr      |-> [s \in 1 .. NumSlices |-> SliceLr0(s)],
               lr2     |-> SecondLr0,
               trace   |-> <<>>]
    /\ pc' = "restore"
    /\ UNCHANGED <<args, error, printed, writer, ref_net, acc_test,
                   acc_test_ref, gen_train, all_test_data, label_train_counts,
                   step, input, labels, sim_iteration, test_idx, i, test_data,
                   files, hist>>

\* line 213: reference-only mode builds no trainable network
SkipNet ==
    /\ pc = "build_net"
    /\ args.just_ref
    /\ pc' = "build_ref"
    /\ UNCHANGED <<args, error, printed, writer, net, ref_net, acc_test,
                   acc_test_ref, gen_train, all_test_data, label_train_counts,
                   step, input, labels, sim_iteration, test_idx, i, test_data,
                   files, hist>>

\* line 225: no restore path given
RestoreNone ==
    /\ pc = "restore"
    /\ args.restore_path = "none"
    /\ pc' = "reset_full"
    /\ UNCHANGED <<args, error, printed, writer, net, ref_net, acc_test,
                   acc_test_ref, gen_train, all_test_data, label_train_counts,
                   step, input, labels, sim_iteration, test_idx, i, test_data,
                   files, hist>>

\* Variant: no os.path.isfile test, torch.load raises on the missing file.
RestoreMissing_Loads ==
    /\ pc = "restore"
    /\ args.restore_path = "missing"
    /\ Raise("FileNotFoundError", 231)
    /\ UNCHANGED <<args, printed, writer, net, ref_net, acc_test,
                   acc_test_ref, gen_train, all_test_data, label_train_counts,
                   step, input, labels, sim_iteration, test_idx, i, test_data,
                   files, hist>>

\* lines 227-229: the restore path is not an existing file
RestoreMissing ==
    /\ pc = "restore"
    /\ args.restore_path = "missing"
    /\ printed' = printed \cup {"ERROR: Cannot load file"}
    /\ pc' = "reset_full"
    /\ UNCHANGED <<args, error, writer, net, ref_net, acc_test,
                   acc_test_ref, gen_train, all_test_data, label_train_counts,
                   step, input, labels, sim_iteration, test_idx, i, test_data,
                   files, hist>>

\* lines 231-233: the weights are loaded from the file
RestoreLoad ==
    /\ pc = "restore"
    /\ args.restore_path = "file"
    /\ net' = [net EXCEPT !.weights = [origin |-> "restored", updates |-> 0]]
    /\ printed' = printed \cup {"Loaded the weights"}
    /\ pc' = "reset_full"
    /\ UNCHANGED <<args, error, writer, ref_net, acc_test,
                   acc_test_ref, gen_train, all_test_data, label_train_counts,
                   step, input, labels, sim_iteration, test_idx, i, test_data,
                   files, hist>>

\* lines 231-232: the file exists but torch.load / load_state_dict raises
RestoreLoadRaises ==
    /\ pc = "restore"
    /\ args.restore_path = "invalid"
    /\ Raise("LoadError", 232)
    /\ UNCHANGED <<args, printed, writer, net, ref_net, acc_test,
                   acc_test_ref, gen_train, all_test_data, label_train_counts,
                   step, input, labels, sim_iteration, test_idx, i, test_data,
                   files, hist>>

\* lines 238-243: net.reset(True), acc_test = np.empty(...)
ResetFull ==
    /\ pc = "reset_full"
    /\ net' = [net EXCEPT !.trace = <<[op |-> "reset", full |-> TRUE, t |-> 0]>>]
    /\ acc_test' = EmptyArray
    /\ pc' = "build_ref"
    /\ UNCHANGED <<args, error, printed, writer, ref_net,
                   acc_test_ref, gen_train, all_test_data, label_train_counts,
                   step, input, labels, sim_iteration, test_idx, i, test_data,
                   files, hist>>

\* lines 253-259: the reference network, acc_test_ref = np.empty(...)
BuildRef ==
    /\ pc = "build_ref"
    /\ ref_net' = [built |-> TRUE, updates |-> 0, mode |-> "train",
                   lr |-> RefLr0]
    /\ acc_test_ref' = EmptyArray
    /\ pc' = "save_meta"
    /\ UNCHANGED <<args, error, printed, writer, net, acc_test,
                   gen_train, all_test_data, label_train_counts,
                   step, input, labels, sim_iteration, test_idx, i, test_data,
                   files, hist>>

\* lines 266-275: the run's metadata, unless saving is disabled
SaveMeta ==
    /\ pc = "save_meta"
    /\ files' = [files EXCEPT !.meta = ~args.no_save]
    /\ pc' = "load_data"
    /\ UNCHANGED <<args, error, printed, writer, net, ref_net, acc_test,
                   acc_test_ref, gen_train, all_test_data, label_train_counts,
                   step, input, labels, sim_iteration, test_idx, i, test_data,
                   hist>>

\* lines 285-295: the iterators, the evaluation pool, the label counter
BuildPool ==
    /\ pc = "load_data"
    /\ n_test <= Len(test_loader)
    /\ gen_train' = 0
    /\ all_test_data' = [b \in 1 .. n_test |->
                            [samples |-> test_loader[b].samples,
                             labels  |-> [k \in DOMAIN test_loader[b].labels |->
                                             OneHot(test_loader[b].labels[k])]]]
    /\ label_train_counts' = [c \in 1 .. target_size |-> 0]
    /\ hist' = [hist EXCEPT !.pool_builds = @ + 1]
    /\ pc' = "loop"
    /\ UNCHANGED <<args, error, printed, writer, net, ref_net, acc_test,
                   acc_test_ref, step, input, labels, sim_iteration, test_idx,
                   i, test_data, files>>

\* line 292: next(gen_test) on an exhausted test iterator
BuildPoolExhausted ==
    /\ pc = "load_data"
    /\ n_test > Len(test_loader)
    /\ Raise("StopIteration", 292)
    /\ UNCHANGED <<args, printed, writer, net, ref_net, acc_test,
                   acc_test_ref, gen_train, all_test_data, label_train_counts,
                   step, input, labels, sim_iteration, test_idx, i, test_data,
                   files, hist>>


(***************************************************************************)
(* The training loop, train.py lines 300-360.                              *)
(***************************************************************************)
\* Variant: the halving is due at steps 0, 1000, 2000, ...
HalvingDue_AtMultiple(s) == (s % LrHalvingPeriod) = 0

\* line 302
HalvingDue(s) == ((s + 1) % LrHalvingPeriod) = 0

\* lines 303-306: every slice optimizer, and optimizer2 of the last slice
HalveNet(n) ==
    [n EXCEPT !.lr  = [s \in DOMAIN n.lr |-> HalveLr(n.lr[s])],
              !.lr2 = HalveLr(n.lr2)]

\* line 307
HalveRef(r) == [r EXCEPT !.lr = HalveLr(r.lr)]

\* lines 300-308: the loop is entered for step < n_steps; learning rates
AdjustLR ==
    /\ pc = "loop"
    /\ step < args.n_steps
    /\ IF HalvingDue(step)
       THEN /\ net' = IF args.just_ref THEN net ELSE HalveNet(net)
            /\ ref_net' = HalveRef(ref_net)
            /\ printed' = printed \cup {"Adjusting learning rates"}
       ELSE UNCHANGED <<net, ref_net, printed>>
    /\ pc' = "fetch"
    /\ UNCHANGED <<args, error, writer, acc_test, acc_test_ref, gen_train,
                   all_test_data, label_train_counts, step, input, labels,
                   sim_iteration, test_idx, i, test_data, files, hist>>

\* Variant: label_train_counts[labels] += 1, which counts a class once per batch.
CountLabels_FancyIndex(counts, lbls) ==
    [c \in DOMAIN counts |->
        IF (c - 1) \in Range(lbls) THEN counts[c] + 1 ELSE counts[c]]

\* lines 322-323: for label in labels: label_train_counts[label] += 1
RECURSIVE CountLabels(_, _)
CountLabels(counts, lbls) ==
    IF lbls = <<>> THEN counts
    ELSE CountLabels([counts EXCEPT ![Head(lbls) + 1] = @ + 1], Tail(lbls))

\* lines 318/321-324: the batch at position pos of the iterator is taken
TakeBatch(pos) ==
    /\ gen_train' = pos
    /\ input' = train_data[pos].samples
    /\ label_train_counts' = CountLabels(label_train_counts, train_data[pos].labels)
    /\ labels' = [k \in DOMAIN train_data[pos].labels |->
                     OneHot(train_data[pos].labels[k])]
    /\ pc' = IF args.just_ref THEN "ref_learn" ELSE "train_reset"

\* line 318: next(gen_train) yields a batch
FetchNext ==
    /\ pc = "fetch"
    /\ gen_train < Len(train_data)
    /\ TakeBatch(gen_train + 1)
    /\ hist' = [hist EXCEPT !.fetched = @ + 1]
    /\ UNCHANGED <<args, error, printed, writer, net, ref_net, acc_test,
                   acc_test_ref, all_test_data, step, sim_iteration, test_idx,
                   i, test_data, files>>

\* Variant: next(gen_train) outside any try, StopIteration ends the run.
FetchRestart_Unhandled ==
    /\ pc = "fetch"
    /\ gen_train >= Len(train_data)
    /\ Len(train_data) > 0
    /\ Raise("StopIteration", 318)
    /\ UNCHANGED <<args, printed, writer, net, ref_net, acc_test,
                   acc_test_ref, gen_train, all_test_data, label_train_counts,
                   step, input, labels, sim_iteration, test_idx, i, test_data,
                   files, hist>>

\* lines 319-321: StopIteration, a new iterator over train_data, its first batch
FetchRestart ==
    /\ pc = "fetch"
    /\ gen_train >= Len(train_data)
    /\ Len(train_data) > 0
    /\ TakeBatch(1)
    /\ hist' = [hist EXCEPT !.fetched = @ + 1, !.restarts = @ + 1]
    /\ UNCHANGED <<args, error, printed, writer, net, ref_net, acc_test,
                   acc_test_ref, all_test_data, step, sim_iteration, test_idx,
                   i, test_data, files>>

\* line 321: next() on the new iterator raises StopIteration inside the handler
FetchRestartRaises ==
    /\ pc = "fetch"
    /\ gen_train >= Len(train_data)
    /\ Len(train_data) = 0
    /\ Raise("StopIteration", 321)
    /\ gen_train' = 0
    /\ hist' = [hist EXCEPT !.restarts = @ + 1]
    /\ UNCHANGED <<args, printed, writer, net, ref_net, acc_test,
                   acc_test_ref, all_test_data, label_train_counts, step, input,
                   labels, sim_iteration, test_idx, i, test_data, files>>

\* a call of the trainable network, as recorded in the presentation window
Call(op, full, t) == [op |-> op, full |-> full, t |-> t]

\* module.train() / module.eval()
SetMode(n, m) == [n EXCEPT !.mode = m]

\* Variant: net.train() is not called before the learn calls.
TrainReset_NoTrain ==
    /\ pc = "train_reset"
    /\ net' = [net EXCEPT !.trace = <<Call("reset", FALSE, 0)>>]
    /\ sim_iteration' = 0
    /\ pc' = "learn"
    /\ UNCHANGED <<args, error, printed, writer, ref_net, acc_test,
                   acc_test_ref, gen_train, all_test_data, label_train_counts,
                   step, input, labels, test_idx, i, test_data, files, hist>>

\* lines 330-342: spike encoding, net.reset(), net.train()
TrainReset ==
    /\ pc = "train_reset"
    /\ net' = SetMode([net EXCEPT !.trace = <<Call("reset", FALSE, 0)>>], "train")
    /\ sim_iteration' = 0
    /\ pc' = "learn"
    /\ UNCHANGED <<args, error, printed, writer, ref_net, acc_test,
                   acc_test_ref, gen_train, all_test_data, label_train_counts,
                   step, input, labels, test_idx, i, test_data, files, hist>>

\* lines 345-347: one net.learn call of the presentation
Learn ==
    /\ pc = "learn"
    /\ sim_iteration < args.n_iters
    /\ net' = [net EXCEPT !.trace = Append(@, Call("learn", FALSE, sim_iteration)),
                          !.weights.updates =
                              IF net.mode = "train" THEN @ + 1 ELSE @]
    /\ hist' = [hist EXCEPT !.learns = @ \cup {<<"net", net.mode>>}]
    /\ sim_iteration' = sim_iteration + 1
    /\ UNCHANGED <<args, pc, error, printed, writer, ref_net, acc_test,
                   acc_test_ref, gen_train, all_test_data, label_train_counts,
                   step, input, labels, test_idx, i, test_data, files>>

\* lines 348-350: acc_train = net.accuracy(labels_spikes), printed only
TrainAccuracy ==
    /\ pc = "learn"
    /\ sim_iteration >= args.n_iters
    /\ net' = [net EXCEPT !.trace = Append(@, Call("accuracy", FALSE, 0))]
    /\ printed' = printed \cup {"[TRAINING]"}
    /\ pc' = "ref_learn"
    /\ UNCHANGED <<args, error, writer, ref_net, acc_test,
                   acc_test_ref, gen_train, all_test_data, label_train_counts,
                   step, input, labels, sim_iteration, test_idx, i, test_data,
                   files, hist>>

\* lines 355-360: ref_net.train(), ref_net.learn(...)
RefLearn ==
    /\ pc = "ref_learn"
    /\ LET r == SetMode(ref_net, "train") IN
         /\ ref_net' = [r EXCEPT !.updates = IF r.mode = "train" THEN @ + 1 ELSE @]
         /\ hist' = [hist EXCEPT !.learns = @ \cup {<<"ref", r.mode>>}]
    /\ pc' = "test_check"
    /\ UNCHANGED <<args, error, printed, writer, net, acc_test,
                   acc_test_ref, gen_train, all_test_data, label_train_counts,
                   step, input, labels, sim_iteration, test_idx, i, test_data,
                   files>>

(***************************************************************************)
(* The evaluation round, train.py lines 364-433.                           *)
(***************************************************************************)
\* Variant: the round is run after every n_test_interval-th step instead.
EvalDue_AfterInterval(s) == ((s + 1) % args.n_test_interval) = 0

\* line 364
EvalDue(s) == (s % args.n_test_interval) = 0

\* Variant: every round is stored in row 0 of the arrays.
RoundIndex_RowZero(s) == 0

\* line 365
RoundIndex(s) == s \div args.n_test_interval

\* lines 364-365: an evaluation round begins
BeginEval ==
    /\ pc = "test_check"
    /\ EvalDue(step)
    /\ test_idx' = RoundIndex(step)
    /\ i' = 0
    /\ hist' = [hist EXCEPT !.rounds = @ \cup {[step |-> step,
                                                test_idx |-> RoundIndex(step)]}]
    /\ pc' = "eval_batch"
    /\ UNCHANGED <<args, error, printed, writer, net, ref_net, acc_test,
                   acc_test_ref, gen_train, all_test_data, label_train_counts,
                   step, input, labels, sim_iteration, test_data, files>>

\* line 364: no evaluation at this step; the loop goes to the next step
SkipEval ==
    /\ pc = "test_check"
    /\ ~EvalDue(step)
    /\ step' = step + 1
    /\ pc' = "loop"
    /\ UNCHANGED <<args, error, printed, writer, net, ref_net, acc_test,
                   acc_test_ref, gen_train, all_test_data, label_train_counts,
                   input, labels, sim_iteration, test_idx, i, test_data, files,
                   hist>>

\* Variant: every round takes the batches that follow those of the last round.
PoolBatch_Resampled(k) ==
    all_test_data[((test_idx * Len(all_test_data) + test_idx + k) % Len(all_test_data)) + 1]

\* line 366: the batch that enumerate(all_test_data) yields at index k
PoolBatch(k) == all_test_data[k + 1]

\* line 366: for i, test_data in enumerate(all_test_data)
NextTestBatch ==
    /\ pc = "eval_batch"
    /\ i < Len(all_test_data)
    /\ test_data' = PoolBatch(i)
    /\ hist' = [hist EXCEPT !.fed = @ \cup {[round |-> test_idx, i |-> i,
                                             batch |-> PoolBatch(i)]}]
    /\ pc' = IF args.just_ref THEN "ref_test" ELSE "encode_test"
    /\ UNCHANGED <<args, error, printed, writer, net, ref_net, acc_test,
                   acc_test_ref, gen_train, all_test_data, label_train_counts,
                   step, input, labels, sim_iteration, test_idx, i, files>>

\* lines 371-387: the test spike tensor is built
EncodeTest ==
    /\ pc = "encode_test"
    /\ pc' = "test_reset"
    /\ UNCHANGED <<args, error, printed, writer, net, ref_net, acc_test,
                   acc_test_ref, gen_train, all_test_data, label_train_counts,
                   step, input, labels, sim_iteration, test_idx, i, test_data,
                   files, hist>>

\* Variant: the handler prints the advice and does not raise again.
EncodeTestRaises_Swallowed ==
    /\ pc = "encode_test"
    /\ printed' = printed \cup {"Try to decrease your batch_size_test"}
    /\ pc' = "test_reset"
    /\ UNCHANGED <<args, error, writer, net, ref_net, acc_test,
                   acc_test_ref, gen_train, all_test_data, label_train_counts,
                   step, input, labels, sim_iteration, test_idx, i, test_data,
                   files, hist>>

\* lines 383-386: torch.Tensor(...).to(device) raises RuntimeError:
\* the advice is printed and the error raised again
EncodeTestRaises ==
    /\ pc = "encode_test"
    /\ printed' = printed \cup {"Try to decrease your batch_size_test"}
    /\ Raise("RuntimeError", 386)
    /\ UNCHANGED <<args, writer, net, ref_net, acc_test,
                   acc_test_ref, gen_train, all_test_data, label_train_counts,
                   step, input, labels, sim_iteration, test_idx, i, test_data,
                   files, hist>>

\* Variant: net.eval() without the net.reset() before it.
TestReset_NoReset ==
    /\ pc = "test_reset"
    /\ net' = SetMode(net, "eval")
    /\ sim_iteration' = 0
    /\ pc' = "test"
    /\ UNCHANGED <<args, error, printed, writer, ref_net, acc_test,
                   acc_test_ref, gen_train, all_test_data, label_train_counts,
                   step, input, labels, test_idx, i, test_data, files, hist>>

\* lines 391-392: net.reset(), net.eval()
TestReset ==
    /\ pc = "test_reset"
    /\ net' = SetMode([net EXCEPT !.trace = <<Call("reset", FALSE, 0)>>], "eval")
    /\ sim_iteration' = 0
    /\ pc' = "test"
    /\ UNCHANGED <<args, error, printed, writer, ref_net, acc_test,
                   acc_test_ref, gen_train, all_test_data, label_train_counts,
                   step, input, labels, test_idx, i, test_data, files, hist>>

\* lines 393-394: one net.test call of the presentation
Test ==
    /\ pc = "test"
    /\ sim_iteration < args.n_iters_test
    /\ net' = [net EXCEPT !.trace = Append(@, Call("test", FALSE, sim_iteration))]
    /\ hist' = [hist EXCEPT !.tests = @ \cup {<<"net", net.mode>>}]
    /\ sim_iteration' = sim_iteration + 1
    /\ UNCHANGED <<args, pc, error, printed, writer, ref_net, acc_test,
                   acc_test_ref, gen_train, all_test_data, label_train_counts,
                   step, input, labels, test_idx, i, test_data, files>>

\* Variant: the event is keyed by the round index instead of the step.
WriteEvent_ByRound(w, ev) ==
    [w EXCEPT !.events = @ \cup {[ev EXCEPT !.step = test_idx]},
              !.late = @ \/ (w.closes > 0)]

\* SummaryWriter receives an event
WriteEvent(w, ev) ==
    [w EXCEPT !.events = @ \cup {ev}, !.late = @ \/ (w.closes > 0)]

\* arr[r, b] = v; an index outside the array raises IndexError
InBounds(arr, r, b) == r \in DOMAIN arr /\ b \in DOMAIN arr[r]

\* lines 395-398: acc_test[test_idx, i, :] = net.accuracy(...), write_stats
TestAccuracy ==
    /\ pc = "test"
    /\ sim_iteration >= args.n_iters_test
    /\ net' = [net EXCEPT !.trace = Append(@, Call("accuracy", FALSE, 0))]
    /\ IF InBounds(acc_test, test_idx, i)
       THEN /\ acc_test' = [acc_test EXCEPT ![test_idx][i] =
                               Written([s \in 1 .. NumSlices |-> net.weights.updates])]
            /\ writer' = IF i = 0
                         THEN WriteEvent(writer, [src |-> "net", kind |-> "test",
                                                  step |-> step])
                         ELSE writer
            /\ pc' = "ref_test"
            /\ error' = error
       ELSE /\ Raise("IndexError", 395)
            /\ UNCHANGED <<acc_test, writer>>
    /\ UNCHANGED <<args, printed, ref_net,
                   acc_test_ref, gen_train, all_test_data, label_train_counts,
                   step, input, labels, sim_iteration, test_idx, i, test_data,
                   files, hist>>

\* lines 400-408: ref_net.eval(), ref_net.test(...), acc_test_ref[test_idx, i]
RefTest ==
    /\ pc = "ref_test"
    /\ LET r == SetMode(ref_net, "eval") IN
         /\ ref_net' = r
         /\ hist' = [hist EXCEPT !.tests = @ \cup {<<"ref", r.mode>>}]
    /\ IF InBounds(acc_test_ref, test_idx, i)
       THEN /\ acc_test_ref' = [acc_test_ref EXCEPT ![test_idx][i] =
                                       Written(<<ref_net.updates>>)]
            /\ writer' = IF i = 0
                         THEN WriteEvent(writer, [src |-> "ref", kind |-> "test",
                                                  step |-> step])
                         ELSE writer
            /\ i' = i + 1
            /\ pc' = "eval_batch"
            /\ error' = error
       ELSE /\ Raise("IndexError", 405)
            /\ UNCHANGED <<acc_test_ref, writer, i>>
    /\ UNCHANGED <<args, printed, net, acc_test,
                   gen_train, all_test_data, label_train_counts,
                   step, input, labels, sim_iteration, test_idx, test_data,
                   files>>

\* line 411
SaveDue == ~args.just_ref /\ ~args.no_save

\* Variant: one file name, 'parameters.pth', for every round.
CheckpointName_Fixed(s) == 0

\* line 416: 'parameters_{}.pth'.format(step)
CheckpointName(s) == s

\* lines 412-417: np.save of both arrays, torch.save of the weights
WriteFiles(f) ==
    [f EXCEPT !.acc_test = [written |-> TRUE, content |-> acc_test],
              !.acc_test_ref = [written |-> TRUE, content |-> acc_test_ref],
              !.params = (CheckpointName(step) :>
                            [weights |-> net.weights,
                             round   |-> test_idx,
                             writes  |-> IF CheckpointName(step) \in DOMAIN f.params
                                         THEN f.params[CheckpointName(step)].writes + 1
                                         ELSE 1]) @@ f.params]

\* lines 411-421: after the last pool batch, arrays and checkpoint are saved
SaveRound ==
    /\ pc = "eval_batch"
    /\ i >= Len(all_test_data)
    /\ SaveDue
    /\ files' = WriteFiles(files)
    /\ hist' = [hist EXCEPT !.saved = @ \cup {[round |-> test_idx, step |-> step,
                                               evaluated |-> i]}]
    /\ printed' = printed \cup {"Saved network parameters"}
    /\ pc' = "report"
    /\ UNCHANGED <<args, error, writer, net, ref_net, acc_test,
                   acc_test_ref, gen_train, all_test_data, label_train_counts,
                   step, input, labels, sim_iteration, test_idx, i, test_data>>

\* line 411: nothing is saved
SkipSave ==
    /\ pc = "eval_batch"
    /\ i >= Len(all_test_data)
    /\ ~SaveDue
    /\ pc' = "report"
    /\ UNCHANGED <<args, error, printed, writer, net, ref_net, acc_test,
                   acc_test_ref, gen_train, all_test_data, label_train_counts,
                   step, input, labels, sim_iteration, test_idx, i, test_data,
                   files, hist>>

\* lines 423-433: the round's means are printed; the loop goes to the next step
Report ==
    /\ pc = "report"
    /\ printed' = printed \cup {"[TESTING]"}
    /\ step' = step + 1
    /\ pc' = "loop"
    /\ UNCHANGED <<args, error, writer, net, ref_net, acc_test,
                   acc_test_ref, gen_train, all_test_data, label_train_counts,
                   input, labels, sim_iteration, test_idx, i, test_data, files,
                   hist>>

\* Variant: the run ends without writer.close().
CloseWriter_Omitted ==
    /\ pc = "loop"
    /\ step >= args.n_steps
    /\ pc' = "done"
    /\ UNCHANGED <<args, error, printed, writer, net, ref_net, acc_test,
                   acc_test_ref, gen_train, all_test_data, label_train_counts,
                   step, input, labels, sim_iteration, test_idx, i, test_data,
                   files, hist>>

\* line 435: writer.close(), after the loop
CloseWriter ==
    /\ pc = "loop"
    /\ step >= args.n_steps
    /\ writer' = [writer EXCEPT !.closes = @ + 1]
    /\ pc' = "done"
    /\ UNCHANGED <<args, error, printed, net, ref_net, acc_test,
                   acc_test_ref, gen_train, all_test_data, label_train_counts,
                   step, input, labels, sim_iteration, test_idx, i, test_data,
                   files, hist>>

Next ==
    \/ BuildNet \/ SkipNet
    \/ RestoreNone \/ RestoreMissing \/ RestoreLoad \/ RestoreLoadRaises
    \/ ResetFull \/ BuildRef \/ SaveMeta \/ BuildPool \/ BuildPoolExhausted
    \/ AdjustLR \/ FetchNext \/ FetchRestart \/ FetchRestartRaises
    \/ TrainReset \/ Learn \/ TrainAccuracy \/ RefLearn
    \/ BeginEval \/ SkipEval \/ NextTestBatch \/ EncodeTest \/ EncodeTestRaises
    \/ TestReset \/ Test \/ TestAccuracy \/ RefTest
    \/ SaveRound \/ SkipSave \/ Report \/ CloseWriter

Spec == Init /\ [][Next]_vars

SpecLong == InitLong /\ [][Next]_vars

(***************************************************************************)
(* Properties of the run.                                                  *)
(***************************************************************************)
EvalPcs == {"eval_batch", "encode_test", "test_reset", "test", "ref_test", "report"}

PoolFixed ==
    /\ hist.pool_builds <= 1
    /\ (hist.pool_builds = 0) => (hist.fetched = 0 /\ step = 0 /\ hist.fed = {})
    /\ (hist.pool_builds = 1) => (Len(all_test_data) = n_test)
    /\ \A f \in hist.fed :
          /\ f.i \in 0 .. n_test - 1
          /\ f.batch = all_test_data[f.i + 1]
          /\ \A b \in 0 .. f.i : \E g \in hist.fed : g.round = f.round /\ g.i = b
    /\ \A f, g \in hist.fed : (f.i = g.i) => (f.batch = g.batch)
    /\ \A r \in hist.rounds :
          (r.step < step) =>
              \A b \in 0 .. n_test - 1 :
                  \E f \in hist.fed : f.round = r.test_idx /\ f.i = b

\* C2 witness: two rounds over a pool of two batches have been held.
PoolFixedWitness ==
    /\ pc = "done"
    /\ n_test = 2
    /\ Cardinality(hist.rounds) = 2
    /\ Cardinality(hist.fed) = 4

\* every tracked optimizer's learning rate, paired with its initial value
TrackedLrs ==
    (IF net.built THEN {<<net.lr[s], SliceLr0(s)>> : s \in 1 .. NumSlices}
                        \cup {<<net.lr2, SecondLr0>>}
                  ELSE {})
    \cup (IF ref_net.built THEN {<<ref_net.lr, RefLr0>>} ELSE {})

\* C3: after exactly k completed training steps every tracked optimizer's
\* learning rate is its initial value divided by 2^floor(k/1000); within step
\* s the halving of that step (due when (s+1) % 1000 = 0) is already applied
\* once the step's batch is being fetched.
LrHalvedEveryThousand ==
    LET k == IF pc \in {"loop", "done"} \/ hist.pool_builds = 0
             THEN step ELSE step + 1
    IN \A p \in TrackedLrs :
          /\ p[1].num = p[2].num
          /\ p[1].den = p[2].den * Pow2(k \div 1000)

\* C3 witness: a run of more than 2000 steps has finished with the trainable
\* network, all of whose optimizers have been halved twice.
LrHalvedWitness ==
    /\ pc = "done"
    /\ net.built
    /\ step > 2 * 1000
    /\ net.lr2.den = 4
    /\ ref_net.lr.den = 4

\* the number of examples in the batch whose one-hot label has entry c set
InBatch(c, lbls) == Cardinality({k \in DOMAIN lbls : lbls[k][c] = 1})

CountsState ==
    /\ \A c \in DOMAIN label_train_counts : label_train_counts[c] >= 0
    /\ SumOver(label_train_counts, DOMAIN label_train_counts)
          = hist.fetched * args.batch_size
    /\ pc \in {"loop", "done"} => hist.fetched = step

CountsStep ==
    /\ \A c \in DOMAIN label_train_counts :
          label_train_counts'[c] >= label_train_counts[c]
    /\ IF hist'.fetched = hist.fetched + 1
       THEN \A c \in DOMAIN label_train_counts :
               label_train_counts'[c] = label_train_counts[c] + InBatch(c, labels')
       ELSE label_train_counts' = label_train_counts

\* C4: after any prefix of K training steps the label counter has no negative
\* entry and sums to K * batch_size; each example of a fetched batch adds one
\* to the entry of its class, and no step decreases or resets the counter,
\* a restart of the training iterator included.
LabelCountsExact == [](CountsState) /\ [][CountsStep]_vars

\* C4 witness: three steps with batches of two examples, the iterator having
\* been restarted.
LabelCountsWitness ==
    /\ pc = "loop"
    /\ step = 3
    /\ args.batch_size = 2
    /\ hist.restarts >= 1
    /\ label_train_counts[1] = 6

RestartState ==
    /\ (Len(train_data) > 0) =>
          ~(error.type = "StopIteration" /\ error.line \in 317 .. 321)
    /\ (pc = "done") => (step = args.n_steps)
    /\ gen_train \in 0 .. Len(train_data)

RestartStep ==
    (pc = "fetch" /\ gen_train >= Len(train_data) /\ Len(train_data) > 0) =>
        /\ pc' # "error"
        /\ error' = error
        /\ step' = step
        /\ gen_train' = 1
        /\ input' = train_data[1].samples
        /\ labels' = [k \in DOMAIN train_data[1].labels |->
                         OneHot(train_data[1].labels[k])]

\* C5 (as amended): when the fetch finds a training data source of at least
\* one batch exhausted, the loop restarts iteration from the beginning of the
\* same source and uses its first batch for that step; exhaustion of such a
\* source never surfaces as an error and never ends the run before n_steps.
RestartOnExhaustion == [](RestartState) /\ [][RestartStep]_vars

\* C5 witness: a finished run over a source of two batches that was restarted
\* once and then served its first batch again.
RestartWitness ==
    /\ pc = "done"
    /\ step = 3
    /\ Len(train_data) = 2
    /\ hist.restarts = 1
    /\ gen_train = 1
    /\ input = train_data[1].samples

\* C5 (as claimed): for every finite training data source, exhaustion never
\* surfaces as an unhandled error of the fetch.
TrainExhaustionNeverFatal ==
    ~(pc = "error" /\ error.type = "StopIteration" /\ error.line \in 317 .. 321)

\* the calls of one presentation of D timesteps by operation op
Presentation(op, D) ==
    <<Call("reset", FALSE, 0)>> \o [t \in 1 .. D |-> Call(op, FALSE, t - 1)]
        \o <<Call("accuracy", FALSE, 0)>>

TrainWindow == Presentation("learn", args.n_iters)

EvalWindow == Presentation("test", args.n_iters_test)

FullReset == <<Call("reset", TRUE, 0)>>

IsPrefix(a, b) == Len(a) <= Len(b) /\ \A k \in 1 .. Len(a) : a[k] = b[k]

WindowState ==
    net.built =>
        /\ \/ net.trace = <<>> /\ step = 0
           \/ net.trace = FullReset
           \/ net.trace # <<>> /\ IsPrefix(net.trace, TrainWindow)
           \/ net.trace # <<>> /\ IsPrefix(net.trace, EvalWindow)
        /\ (pc = "learn") =>
              (IsPrefix(net.trace, TrainWindow) /\ Len(net.trace) = sim_iteration + 1)
        /\ (pc = "test") =>
              (IsPrefix(net.trace, EvalWindow) /\ Len(net.trace) = sim_iteration + 1)
        /\ (pc \notin {"learn", "test"}) =>
              (net.trace \in {<<>>, FullReset, TrainWindow, EvalWindow})

WindowStep ==
    (net'.trace # net.trace) =>
        \/ /\ net'.trace = FullReset
           /\ net.trace = <<>>
        \/ /\ net'.trace = <<Call("reset", FALSE, 0)>>
           /\ net.trace \in {FullReset, TrainWindow, EvalWindow}
        \/ /\ Len(net'.trace) = Len(net.trace) + 1
           /\ Len(net.trace) >= 1
           /\ IsPrefix(net.trace, net'.trace)

\* C6: every presentation of the trainable network is reset, then D
\* single-step calls for t = 0..D-1 in order (learn calls with D = n_iters, or
\* test calls with D = n_iters_test), then one accuracy query; a reset
\* separates two presentations, windows hold one kind of step only, and the
\* first presentation follows one reset(full=True).
PresentationSequence == [](WindowState) /\ [][WindowStep]_vars

\* C6 witness: a finished run whose last presentation was an evaluation of
\* two timesteps, its training presentations having one.
PresentationWitness ==
    /\ pc = "done"
    /\ step = 3
    /\ args.n_iters = 1
    /\ args.n_iters_test = 2
    /\ net.trace = EvalWindow
    /\ net.weights.updates = 3

\* C7 (as amended): the logging sink is closed exactly once, on normal
\* completion after n_steps iterations; a run that ends early through an
\* error leaves it unclosed; it is never closed twice and never written to
\* after being closed.
WriterClosedOnCompletion ==
    /\ writer.closes <= 1
    /\ ~writer.late
    /\ (pc = "done") => (writer.closes = 1 /\ step = args.n_steps)
    /\ (pc # "done") => (writer.closes = 0)

\* C7 witness: a finished run that wrote to the sink and then closed it.
WriterClosedWitness ==
    /\ pc = "done"
    /\ writer.closes = 1
    /\ Cardinality(writer.events) >= 2

\* C7 (as claimed): the sink is closed exactly once when the run has ended,
\* on normal completion and when the re-raised test-time error ends it.
WriterClosedOnAllExits ==
    (pc = "done" \/ (pc = "error" /\ error.type = "RuntimeError")) =>
        (writer.closes = 1)

OomState ==
    /\ ("Try to decrease your batch_size_test" \in printed)
          <=> (error.type = "RuntimeError")
    /\ (error.type = "RuntimeError") =>
          /\ pc = "error"
          /\ error.line = 386
          /\ \A b \in i .. n_test - 1 : ~acc_test[test_idx][b].written
          /\ ~\E s \in hist.saved : s.round = test_idx \/ s.step = step
          /\ ~\E f \in DOMAIN files.params : files.params[f].round = test_idx
          /\ net.trace = IF i = 0 THEN TrainWindow ELSE EvalWindow
          /\ Cardinality({f \in hist.fed : f.round = test_idx}) = i + 1

\* C8: a resource error raised while the test tensor of pool batch i of round
\* r is built is logged with the advice to reduce batch_size_test and raised
\* again: the run is over (no step follows, so no retry and no test step),
\* acc_test[r, i] is not written, and nothing is saved for round r.
OomFatal == [](OomState) /\ [][pc # "error"]_vars

\* C8 witness: the error hits the second batch of the second round, after
\* the first round was saved.
OomWitness ==
    /\ error.type = "RuntimeError"
    /\ test_idx = 1
    /\ i = 1
    /\ hist.saved # {}

RoundOver(r) == r.step < step \/ (r.step = step /\ pc = "report")

\* C10: in every round, after all n_test pool batches have been evaluated
\* and exactly when the run is not reference-only and saving is enabled, both
\* accuracy arrays and the current weights are persisted, the weights to a
\* file of that round alone (written once); otherwise nothing is written.
SavedWhenDue ==
    /\ \A s \in hist.saved :
          /\ ~args.just_ref /\ ~args.no_save
          /\ s.evaluated = n_test
          /\ \A b \in 0 .. n_test - 1 :
                acc_test[s.round][b].written /\ acc_test_ref[s.round][b].written
          /\ \E f \in DOMAIN files.params : files.params[f].round = s.round
    /\ \A f \in DOMAIN files.params :
          /\ files.params[f].writes = 1
          /\ \E s \in hist.saved : s.round = files.params[f].round
    /\ Cardinality(DOMAIN files.params) = Cardinality(hist.saved)
    /\ files.acc_test.written <=> (hist.saved # {})
    /\ files.acc_test_ref.written <=> (hist.saved # {})
    /\ (args.just_ref \/ args.no_save) =>
          /\ files.acc_test = NoFile
          /\ files.acc_test_ref = NoFile
          /\ DOMAIN files.params = {}
    /\ (~args.just_ref /\ ~args.no_save) =>
          \A r \in hist.rounds :
              RoundOver(r) => \E s \in hist.saved : s.round = r.test_idx
    /\ (~args.just_ref /\ ~args.no_save /\ pc = "report") =>
          /\ files.acc_test = [written |-> TRUE, content |-> acc_test]
          /\ files.acc_test_ref = [written |-> TRUE, content |-> acc_test_ref]
          /\ \E f \in DOMAIN files.params :
                files.params[f] = [weights |-> net.weights, round |-> test_idx,
                                   writes |-> 1]

\* C10 witness: two rounds over a pool of two batches have been saved, each
\* to its own checkpoint file.
SavedWitness ==
    /\ pc = "done"
    /\ n_test = 2
    /\ Cardinality(hist.saved) = 2
    /\ Cardinality(DOMAIN files.params) = 2

\* the accuracy arrays exist from the construction of the networks on; the
\* test pool is built after both
ArraysLive == hist.pool_builds > 0

\* the value the trainable network's accuracy takes in the round at step s:
\* it is a function of the weights, which (s + 1) presentations have updated
TestValueAt(s) == Written([k \in 1 .. NumSlices |-> (s + 1) * args.n_iters])

\* the value the reference network's accuracy takes in the round at step s
RefValueAt(s) == Written(<<s + 1>>)

CumulativeState ==
    ArraysLive =>
      /\ \A r \in DOMAIN acc_test_ref : \A b \in DOMAIN acc_test_ref[r] :
            acc_test_ref[r][b].written =>
               /\ r * args.n_test_interval <= step
               /\ acc_test_ref[r][b] = RefValueAt(r * args.n_test_interval)
      /\ ~args.just_ref =>
            \A r \in DOMAIN acc_test : \A b \in DOMAIN acc_test[r] :
               acc_test[r][b].written =>
                  /\ r * args.n_test_interval <= step
                  /\ acc_test[r][b] = TestValueAt(r * args.n_test_interval)
      /\ \A sv \in hist.saved : \A rd \in hist.rounds :
            rd.step <= sv.step =>
               \E r \in DOMAIN files.acc_test.content :
                  /\ r * args.n_test_interval = rd.step
                  /\ \A b \in 0 .. n_test - 1 :
                        /\ files.acc_test.content[r][b] = TestValueAt(rd.step)
                        /\ files.acc_test_ref.content[r][b] = RefValueAt(rd.step)

CumulativeStep ==
    ArraysLive =>
      /\ \A r \in DOMAIN acc_test_ref : \A b \in DOMAIN acc_test_ref[r] :
            acc_test_ref'[r][b] # acc_test_ref[r][b] =>
               /\ pc = "ref_test"
               /\ r * args.n_test_interval = step
               /\ b = i
               /\ ~acc_test_ref[r][b].written
      /\ ~args.just_ref =>
            \A r \in DOMAIN acc_test : \A b \in DOMAIN acc_test[r] :
               acc_test'[r][b] # acc_test[r][b] =>
                  /\ pc = "test"
                  /\ r * args.n_test_interval = step
                  /\ b = i
                  /\ ~acc_test[r][b].written
      /\ pc \notin {"test", "ref_test"} =>
            /\ acc_test' = acc_test
            /\ acc_test_ref' = acc_test_ref

\* C11: the accuracy arrays are cumulative. The round at step r * interval
\* writes only the entries [r, i] of the two arrays, each once, and no other
\* step (training included) changes either array; every written entry holds
\* the value of its own round, and the arrays persisted at a round hold, for
\* that round and every earlier one, the values written during that round.
ArraysCumulative == [](CumulativeState) /\ [][CumulativeStep]_vars

\* C11 witness: a second round over a pool of two batches has been saved
\* after two further training steps, the first round's row still in place.
ArraysCumulativeWitness ==
    /\ pc = "report"
    /\ step = 2
    /\ args.n_test_interval = 2
    /\ n_test = 2
    /\ Cardinality(hist.saved) = 2
    /\ files.acc_test.content[0][1] = TestValueAt(0)
    /\ files.acc_test.content[1][1] = TestValueAt(2)
    /\ files.acc_test_ref.content[0][1] = RefValueAt(0)

\* m is the ceiling of a / b
IsCeil(m, a, b) == m * b >= a /\ (m - 1) * b < a

\* every entry of row-and-column array arr is written
Populated(arr) == \A r \in DOMAIN arr : \A b \in DOMAIN arr[r] : arr[r][b].written

\* arr has rounds 0 .. m - 1 and, in each, batches 0 .. k - 1
HasShape(arr, m, k) ==
    /\ DOMAIN arr = 0 .. m - 1
    /\ \A r \in DOMAIN arr : DOMAIN arr[r] = 0 .. k - 1

\* C12: the accuracy arrays have ceil(n_steps / n_test_interval) rounds of
\* ceil(n_test_samples / batch_size_test) batches; every index [round, batch]
\* written lies inside them, so no write raises; and at normal completion
\* every entry of every round is populated (acc_test exists only when the
\* trainable network is run).
ArraysSizedAndFilled ==
    /\ error.type # "IndexError"
    /\ ArraysLive =>
          \E m \in 1 .. args.n_steps : \E k \in 0 .. args.n_test_samples :
             /\ IsCeil(m, args.n_steps, args.n_test_interval)
             /\ IsCeil(k, args.n_test_samples, args.batch_size_test)
             /\ HasShape(acc_test_ref, m, k)
             /\ ~args.just_ref => HasShape(acc_test, m, k)
             /\ pc \in {"encode_test", "test_reset", "test", "ref_test"} =>
                   test_idx \in 0 .. m - 1 /\ i \in 0 .. k - 1
             /\ \A rd \in hist.rounds : rd.test_idx \in 0 .. m - 1
             /\ pc = "done" =>
                   /\ Cardinality(hist.rounds) = m
                   /\ Populated(acc_test_ref)
                   /\ ~args.just_ref => Populated(acc_test)

\* C12 witness: a completed run of three steps with a round every second
\* step and one test sample in batches of two, where both sizes are rounded
\* up (two rounds, one batch), every entry written.
ArraysSizedWitness ==
    /\ pc = "done"
    /\ ~args.just_ref
    /\ args.n_steps = 3 /\ args.n_test_interval = 2
    /\ args.n_test_samples = 1 /\ args.batch_size_test = 2
    /\ HasShape(acc_test, 2, 1)
    /\ Populated(acc_test) /\ Populated(acc_test_ref)

\* the event that write_stats of network src leaves in the sink at step s
StatsEvent(src, s) == [src |-> src, kind |-> "test", step |-> s]

\* C13 (as amended): the logging sink receives, keyed by step number, the
\* statistics of an evaluation round once per round, at pool batch 0 (so
\* only when the pool has a batch), for the reference network and, unless
\* the run is reference-only, for the trainable network. It receives nothing
\* at a training step: the trainable network's training accuracy is printed
\* at every training step and not written to the sink.
SinkReceivesRoundStats ==
    /\ \A ev \in writer.events :
          /\ ev.kind = "test"
          /\ ev.src = "net" => ~args.just_ref
          /\ \E rd \in hist.rounds : rd.step = ev.step
    /\ \A rd \in hist.rounds :
          (RoundOver(rd) /\ n_test >= 1) =>
             /\ StatsEvent("ref", rd.step) \in writer.events
             /\ ~args.just_ref => StatsEvent("net", rd.step) \in writer.events
    /\ n_test = 0 => writer.events = {}
    /\ (~args.just_ref /\ step >= 1) => "[TRAINING]" \in printed

\* C13 (as claimed): after every training step the sink holds a training
\* accuracy keyed by that step, and after every round a test accuracy keyed
\* by the round's step, for both networks.
SinkReceivesTrainAndTest ==
    /\ \A s \in 0 .. step - 1 : \A src \in {"net", "ref"} :
          [src |-> src, kind |-> "train", step |-> s] \in writer.events
    /\ \A rd \in hist.rounds : \A src \in {"net", "ref"} :
          RoundOver(rd) => StatsEvent(src, rd.step) \in writer.events

\* C13 witness: a completed run of three training steps with rounds at
\* steps 0 and 2; the sink holds the four round statistics and nothing else.
SinkWitness ==
    /\ pc = "done"
    /\ ~args.just_ref
    /\ args.n_steps = 3 /\ args.n_test_interval = 2
    /\ "[TRAINING]" \in printed
    /\ writer.events = {StatsEvent("net", 0), StatsEvent("ref", 0),
                        StatsEvent("net", 2), StatsEvent("ref", 2)}

ModesState ==
    /\ hist.learns \subseteq {<<"net", "train">>, <<"ref", "train">>}
    /\ hist.tests \subseteq {<<"net", "eval">>, <<"ref", "eval">>}
    /\ pc = "learn" => net.mode = "train"
    /\ pc = "test" => net.mode = "eval"
    /\ (pc = "report" /\ n_test >= 1) =>
          /\ ref_net.mode = "eval"
          /\ ~args.just_ref => net.mode = "eval"
    /\ pc \in {"loop", "done"} =>
          /\ ref_net.updates = step
          /\ ~args.just_ref => net.weights.updates = step * args.n_iters

ModesStep ==
    pc \in EvalPcs =>
       /\ net'.weights = net.weights
       /\ ref_net'.updates = ref_net.updates

\* C14: for both networks, every learn call is made in train mode and every
\* test call in eval mode. A round leaves both networks in eval mode and the
\* next training step switches each back to train mode before its first
\* learn call, so no step of a round changes any weights and every training
\* step updates them: n_iters updates of the trainable network and one of
\* the reference network per step.
LearnInTrainTestInEval == [](ModesState) /\ [][ModesStep]_vars

\* C14 witness: a completed run of three training steps, each followed by a
\* round over a non-empty pool; both networks learned and were tested, and
\* the trainable network took all its six updates.
ModesWitness ==
    /\ pc = "done"
    /\ ~args.just_ref
    /\ args.n_steps = 3 /\ args.n_test_interval = 1
    /\ n_test >= 1
    /\ args.n_iters = 2
    /\ hist.learns = {<<"net", "train">>, <<"ref", "train">>}
    /\ hist.tests = {<<"net", "eval">>, <<"ref", "eval">>}
    /\ net.weights.updates = 6
    /\ ref_net.updates = 3

====
